---- MODULE Spec2Model ----
(***************************************************************************)
(* Dispatch core of advanced_mcp_server.py: the tool catalog, the          *)
(* call-tool dispatcher with Python keyword binding, the seven handlers    *)
(* and the three SQLite tables they share.                                 *)
(*                                                                         *)
(* Text is modelled as a sequence of string fragments (an f-string's       *)
(* literal parts and interpolated values); json.dumps(result) is modelled  *)
(* as a block carrying the result dictionary as a record.                  *)
(* Time is counted in clock units, UnitsPerSecond of them to the second.   *)
(***************************************************************************)
EXTENDS Integers, Sequences, FiniteSets, TLC

\* ---------------------------------------------------------------- bounds
MaxScrapeRows == 2
MaxMetricRows == 6
MaxCacheRows == 2
MaxHours == 2
MaxMonitorRuns == 1
UnitsPerSecond == 2
StartHour == 3
MaxListings == 2
MaxExtraRows == 2

\* ------------------------------------------------------ program constants
SecondsPerMinute == 60
SecondsPerHour == 3600
CpuSampleSeconds == 1
HealthRowCap == 100
WebRowCap == 50

HourUnits == SecondsPerHour * UnitsPerSecond

\* Python's None
NoneVal == "<None>"

\* the catalogs list_tools has returned so far, each with the rowid counters
\* of the store at that moment
VARIABLE listings

\* ------------------------------------------------------------ the catalog
Prop(n, t, hasDef, def, enum) ==
    [name |-> n, type |-> t, hasDefault |-> hasDef, default |-> def, enum |-> enum]

Catalog ==
    << [name |-> "scrape_website",
        description |-> "Scrape and analyze website content with advanced parsing",
        properties |-> << Prop("url", "string", FALSE, NoneVal, {}),
                          Prop("extract_links", "boolean", TRUE, FALSE, {}),
                          Prop("extract_images", "boolean", TRUE, FALSE, {}),
                          Prop("save_to_db", "boolean", TRUE, TRUE, {}) >>,
        required |-> <<"url">>],
       [name |-> "analyze_data",
        description |-> "Perform statistical analysis on CSV data with visualizations",
        properties |-> << Prop("file_path", "string", FALSE, NoneVal, {}),
                          Prop("analysis_type", "string", FALSE, NoneVal,
                               {"summary", "correlation", "distribution", "trends"}),
                          Prop("create_visualization", "boolean", TRUE, TRUE, {}) >>,
        required |-> <<"file_path", "analysis_type">>],
       [name |-> "system_monitor",
        description |-> "Monitor system resources and performance metrics",
        properties |-> << Prop("duration_minutes", "integer", TRUE, 1, {}),
                          Prop("interval_seconds", "integer", TRUE, 10, {}),
                          Prop("save_metrics", "boolean", TRUE, TRUE, {}) >>,
        required |-> << >>],
       [name |-> "file_operations",
        description |-> "Advanced file system operations with search and analysis",
        properties |-> << Prop("operation", "string", FALSE, NoneVal,
                               {"search", "analyze", "backup", "cleanup", "compare"}),
                          Prop("path", "string", FALSE, NoneVal, {}),
                          Prop("pattern", "string", FALSE, NoneVal, {}),
                          Prop("options", "object", FALSE, NoneVal, {}) >>,
        required |-> <<"operation", "path">>],
       [name |-> "api_integration",
        description |-> "Make API calls with caching and error handling",
        properties |-> << Prop("endpoint", "string", FALSE, NoneVal, {}),
                          Prop("method", "string", TRUE, "GET",
                               {"GET", "POST", "PUT", "DELETE"}),
                          Prop("headers", "object", FALSE, NoneVal, {}),
                          Prop("data", "object", FALSE, NoneVal, {}),
                          Prop("use_cache", "boolean", TRUE, TRUE, {}),
                          Prop("cache_duration_hours", "integer", TRUE, 1, {}) >>,
        required |-> <<"endpoint">>],
       [name |-> "database_query",
        description |-> "Execute SQL queries on the internal database",
        properties |-> << Prop("query", "string", FALSE, NoneVal, {}),
                          Prop("table", "string", FALSE, NoneVal,
                               {"web_scrapes", "system_metrics", "api_cache"}),
                          Prop("limit", "integer", TRUE, 100, {}) >>,
        required |-> <<"query">>],
       [name |-> "generate_report",
        description |-> "Generate comprehensive reports from collected data",
        properties |-> << Prop("report_type", "string", FALSE, NoneVal,
                               {"system_health", "web_analysis", "data_summary"}),
                          Prop("format", "string", TRUE, "markdown",
                               {"html", "json", "markdown"}),
                          Prop("include_charts", "boolean", TRUE, TRUE, {}) >>,
        required |-> <<"report_type">>] >>

\* a catalog kept in one shared list that a listing consumes
handle_list_tools_shared == IF listings = << >> THEN Catalog ELSE Tail(Catalog)

\* return [Tool(...), ...]: a list built anew from literals on every call
handle_list_tools == Catalog

ToolNames == { Catalog[i].name : i \in 1..Len(Catalog) }

ToolDef(name) == Catalog[CHOOSE i \in 1..Len(Catalog) : Catalog[i].name = name]

SchemaProp(name, p) ==
    LET props == ToolDef(name).properties
    IN  props[CHOOSE i \in 1..Len(props) : props[i].name = p]

SchemaPropNames(name) ==
    LET props == ToolDef(name).properties
    IN  { props[i].name : i \in 1..Len(props) }

\* ------------------------------------------- the handlers' def signatures
Param(n, req, def) == [name |-> n, required |-> req, default |-> def]

\* database_query declared with limit: int = 10
SignatureOtherLimit ==
    [scrape_website |-> << Param("url", TRUE, NoneVal),
                           Param("extract_links", FALSE, FALSE),
                           Param("extract_images", FALSE, FALSE),
                           Param("save_to_db", FALSE, TRUE) >>,
     analyze_data |-> << Param("file_path", TRUE, NoneVal),
                         Param("analysis_type", TRUE, NoneVal),
                         Param("create_visualization", FALSE, TRUE) >>,
     system_monitor |-> << Param("duration_minutes", FALSE, 1),
                           Param("interval_seconds", FALSE, 10),
                           Param("save_metrics", FALSE, TRUE) >>,
     file_operations |-> << Param("operation", TRUE, NoneVal),
                            Param("path", TRUE, NoneVal),
                            Param("pattern", FALSE, NoneVal),
                            Param("options", FALSE, NoneVal) >>,
     api_integration |-> << Param("endpoint", TRUE, NoneVal),
                            Param("method", FALSE, "GET"),
                            Param("headers", FALSE, NoneVal),
                            Param("data", FALSE, NoneVal),
                            Param("use_cache", FALSE, TRUE),
                            Param("cache_duration_hours", FALSE, 1) >>,
     database_query |-> << Param("query", TRUE, NoneVal),
                           Param("table", FALSE, NoneVal),
                           Param("limit", FALSE, 10) >>,
     generate_report |-> << Param("report_type", TRUE, NoneVal),
                            Param("format", FALSE, "markdown"),
                            Param("include_charts", FALSE, TRUE) >>]

\* database_query declared with table: str, no default
SignatureTableRequired ==
    [SignatureOtherLimit EXCEPT !.database_query =
        << Param("query", TRUE, NoneVal), Param("table", TRUE, NoneVal),
           Param("limit", FALSE, 100) >>]

Signature ==
    [scrape_website |-> << Param("url", TRUE, NoneVal),
                           Param("extract_links", FALSE, FALSE),
                           Param("extract_images", FALSE, FALSE),
                           Param("save_to_db", FALSE, TRUE) >>,
     analyze_data |-> << Param("file_path", TRUE, NoneVal),
                         Param("analysis_type", TRUE, NoneVal),
                         Param("create_visualization", FALSE, TRUE) >>,
     system_monitor |-> << Param("duration_minutes", FALSE, 1),
                           Param("interval_seconds", FALSE, 10),
                           Param("save_metrics", FALSE, TRUE) >>,
     file_operations |-> << Param("operation", TRUE, NoneVal),
                            Param("path", TRUE, NoneVal),
                            Param("pattern", FALSE, NoneVal),
                            Param("options", FALSE, NoneVal) >>,
     api_integration |-> << Param("endpoint", TRUE, NoneVal),
                            Param("method", FALSE, "GET"),
                            Param("headers", FALSE, NoneVal),
                            Param("data", FALSE, NoneVal),
                            Param("use_cache", FALSE, TRUE),
                            Param("cache_duration_hours", FALSE, 1) >>,
     database_query |-> << Param("query", TRUE, NoneVal),
                           Param("table", FALSE, NoneVal),
                           Param("limit", FALSE, 100) >>,
     generate_report |-> << Param("report_type", TRUE, NoneVal),
                            Param("format", FALSE, "markdown"),
                            Param("include_charts", FALSE, TRUE) >>]

ParamNames(name) == { Signature[name][i].name : i \in 1..Len(Signature[name]) }

\* ------------------------------------------------------- content blocks
Text(frags) == [type |-> "text", text |-> frags]
JsonText(dict) == [type |-> "text", json |-> dict]
Image == [type |-> "image", mimeType |-> "image/png"]

\* An exception is its message; str(e) is the message.
Raise(msg) == [raised |-> TRUE, msg |-> msg]

\* --------------------------------------------- keyword binding f(**args)
\* CPython binds keywords first (an unexpected keyword raises TypeError),
\* then reports every missing required parameter in signature order.
RECURSIVE MissingFrom(_, _, _)
MissingFrom(sig, args, i) ==
    IF i > Len(sig) THEN << >>
    ELSE (IF sig[i].required /\ sig[i].name \notin DOMAIN args
          THEN <<sig[i].name>> ELSE << >>) \o MissingFrom(sig, args, i + 1)

Unexpected(name, args) == DOMAIN args \ ParamNames(name)

Bind(name, args) ==
    LET sig == Signature[name]
        missing == MissingFrom(sig, args, 1)
    IN  IF Unexpected(name, args) # {}
        THEN Raise(<<name, "() got an unexpected keyword argument ",
                     CHOOSE k \in Unexpected(name, args) : TRUE>>)
        ELSE IF missing # << >>
        THEN Raise(<<name, "() missing required positional arguments: ">> \o missing)
        ELSE [raised |-> FALSE,
              bound |-> [p \in ParamNames(name) |->
                           IF p \in DOMAIN args THEN args[p]
                           ELSE LET i == CHOOSE j \in 1..Len(sig) : sig[j].name = p
                                IN  sig[i].default]]


\* ------------------------------------------------------------------ time
\* The store is [web_scrapes, system_metrics, api_cache, seq, now, tz]:
\* the three tables in rowid order, sqlite_sequence, the UTC clock in units
\* and the host's UTC offset in hours.

\* CURRENT_TIMESTAMP: UTC, formatted 'YYYY-MM-DD HH:MM:SS' (whole seconds).
CURRENT_TIMESTAMP(st) == st.now \div UnitsPerSecond

\* datetime.now(): naive local time with sub-second resolution.
datetime_now(st) == st.now + st.tz * HourUnits

timedelta_hours(h) == h * HourUnits
timedelta_minutes(m) == m * SecondsPerMinute * UnitsPerSecond
Seconds(s) == s * UnitsPerSecond

\* sqlite3's datetime adapter: isoformat(" "), seconds then the fraction.
AdaptDatetime(dt) == [sec |-> dt \div UnitsPerSecond, frac |-> dt % UnitsPerSecond]

\* SQLite compares the stored text 'S' with the bound text 'S2[.ffffff]'
\* bytewise: the seconds decide, and with equal seconds the stored text is a
\* prefix of (or equal to) the parameter, hence not greater.
TimestampTextGreater(stored, param) == stored > param.sec

\* ----------------------------------------------------- handler outcomes
BaseLog == [handler |-> "none", fault |-> FALSE, faultMsg |-> << >>,
            cacheRead |-> FALSE, fetched |-> FALSE, executed |-> << >>,
            committed |-> FALSE, samples |-> 0, opened |-> 0, closed |-> 0]

\* conn = sqlite3.connect(self.db_path) and conn.close(), counted per call
Connect(log) == [log EXCEPT !.opened = @ + 1]
Close(log) == [log EXCEPT !.closed = @ + 1]

Out(blocks, st, log) == [raised |-> FALSE, blocks |-> blocks, st |-> st, log |-> log]

\* an except clause that drops str(e)
HandlerFaultNoMessage(prefix, msg, st, log) ==
    [raised |-> FALSE, blocks |-> <<[type |-> "text", text |-> prefix]>>, st |-> st,
     log |-> [log EXCEPT !.fault = TRUE, !.faultMsg = msg]]

\* an exception reaching a handler's own "except Exception as e"
HandlerFault(prefix, msg, st, log) ==
    Out(<<Text(prefix \o msg)>>, st, [log EXCEPT !.fault = TRUE, !.faultMsg = msg])

NetFaultMsg == <<"Cannot connect to host">>
DbFaultMsg == <<"unable to open database file">>
FsFaultMsg == <<"Permission denied">>
ChartFaultMsg == <<"cannot write image">>

\* INSERT OR REPLACE on a table that keeps one row
InsertPurging(st, table, row) ==
    [st EXCEPT ![table] = <<[id |-> st.seq[table] + 1] @@ row>>,
               !.seq[table] = st.seq[table] + 1]

\* an insert into web_scrapes that also invalidates the response cache
InsertInvalidating(st, table, row) ==
    LET id == st.seq[table] + 1
    IN  [st EXCEPT ![table] = Append(@, [id |-> id] @@ row), !.seq[table] = id,
                   !.api_cache = IF table = "web_scrapes" THEN << >> ELSE @]

\* INSERT INTO table (...) VALUES (...)
Insert(st, table, row) ==
    LET id == st.seq[table] + 1
    IN  [st EXCEPT ![table] = Append(@, [id |-> id] @@ row), !.seq[table] = id]

\* ------------------------------------------------------- scrape_website
scrape_website(b, st, env) ==
    LET log == [BaseLog EXCEPT !.handler = "scrape_website", !.fetched = TRUE]
        prefix == <<"Error scraping ", b.url, ": ">>
        result == [url |-> b.url, title |-> env.title]
                  @@ (IF b.extract_links THEN [links |-> "links[:20]"] ELSE << >>)
                  @@ (IF b.extract_images THEN [images |-> "images[:10]"] ELSE << >>)
    IN  IF env.net = "fault" THEN HandlerFault(prefix, NetFaultMsg, st, log)
        ELSE IF env.status # 200
        THEN Out(<<Text(<<"Failed to fetch ", b.url, ": HTTP ", ToString(env.status)>>)>>,
                 st, log)
        ELSE IF b.save_to_db
        THEN IF env.db = "fault" THEN HandlerFault(prefix, DbFaultMsg, st, log)
             ELSE Out(<<JsonText(result @@ [saved_to_db |-> TRUE])>>,
                      Insert(st, "web_scrapes",
                             [url |-> b.url, title |-> env.title,
                              content |-> "clean_text",
                              scraped_at |-> CURRENT_TIMESTAMP(st)]),
                      Close(Connect([log EXCEPT !.committed = TRUE])))
        ELSE Out(<<JsonText(result)>>, st, log)

\* --------------------------------------------------------- analyze_data
\* env.fs: the file is missing, readable, or reading/serialising it raises;
\* env.numeric: the frame has the numeric (and date) columns the branch needs.
\* the summary appended after the figures
InsertLast(results, block) == Append(results, block)

\* results.insert(0, block)
InsertFirst(results, block) == <<block>> \o results

analyze_data(b, st, env) ==
    LET log == [BaseLog EXCEPT !.handler = "analyze_data"]
        base == [file |-> b.file_path, analysis_type |-> b.analysis_type]
        charted == b.analysis_type \in {"correlation", "distribution", "trends"}
                   /\ env.numeric /\ b.create_visualization
        analysis_result ==
            IF b.analysis_type = "summary" THEN base @@ [summary |-> "describe"]
            ELSE IF b.analysis_type = "correlation"
            THEN (IF env.numeric THEN base @@ [correlation_matrix |-> "corr"]
                  ELSE base @@ [error |-> "Not enough numeric columns for correlation analysis"])
            ELSE IF b.analysis_type = "distribution"
            THEN (IF env.numeric THEN base @@ [distribution |-> "stats"] ELSE base)
            ELSE IF b.analysis_type = "trends"
            THEN (IF env.numeric THEN base @@ [trend_analysis |-> "range"]
                  ELSE base @@ [error |-> "No suitable date and numeric columns found for trend analysis"])
            ELSE base
        results == IF charted THEN <<Image>> ELSE << >>
    IN  IF env.fs = "missing"
        THEN Out(<<Text(<<"File not found: ", b.file_path>>)>>, st, log)
        ELSE IF env.fs = "fault"
        THEN HandlerFault(<<"Error analyzing data: ">>, FsFaultMsg, st, log)
        ELSE IF charted /\ env.chart = "fault"
        THEN HandlerFault(<<"Error analyzing data: ">>, ChartFaultMsg, st, log)
        ELSE Out(InsertFirst(results, JsonText(analysis_result)), st, log)

\* ------------------------------------------------------ file_operations
file_operations(b, st, env) ==
    LET log == [BaseLog EXCEPT !.handler = "file_operations"]
        result == [operation |-> b.operation, path |-> b.path]
        full == IF b.operation = "search" THEN result @@ [matches |-> "matches[:50]"]
                ELSE IF b.operation = "analyze" /\ env.fs = "ok"
                THEN result @@ [type |-> "file"]
                ELSE IF b.operation = "backup" THEN result @@ [backup_created |-> "backup_path"]
                ELSE IF b.operation = "cleanup" THEN result @@ [files_removed |-> 0]
                ELSE result
    IN  IF b.operation = "search" /\ b.pattern \in {NoneVal, ""}
        THEN Out(<<Text(<<"Pattern required for search operation">>)>>, st, log)
        ELSE IF env.fs = "fault" /\ b.operation \in {"search", "analyze", "backup"}
        THEN HandlerFault(<<"Error in file operation: ">>, FsFaultMsg, st, log)
        ELSE Out(<<JsonText(full)>>, st, log)


\* ------------------------------------------------------- system_monitor
\* psutil readings are in tenths of a percent; env.cpu, env.mem, env.disk
\* are what psutil reports during the call.
RECURSIVE SumSeq(_)
SumSeq(s) == IF s = << >> THEN 0 ELSE Head(s) + SumSeq(Tail(s))

MaxOf(s) == CHOOSE x \in { s[i] : i \in 1..Len(s) } : \A i \in 1..Len(s) : s[i] <= x
MinOf(s) == CHOOSE x \in { s[i] : i \in 1..Len(s) } : \A i \in 1..Len(s) : x <= s[i]

\* round(sum / n, 2) in hundredths of a percent (ties to even)
RoundedAverage(s) ==
    LET num == SumSeq(s) * 10
        n == Len(s)
        q == num \div n
        r == num % n
    IN  IF 2 * r > n THEN q + 1
        ELSE IF 2 * r = n THEN q + (q % 2)
        ELSE q

Sleep(st, seconds) == [st EXCEPT !.now = @ + Seconds(IF seconds > 0 THEN seconds ELSE 0)]

\* the while loop: [st, metrics, fault]
RECURSIVE MonitorLoop(_, _, _, _, _)
MonitorLoop(st, metrics, end_time, b, env) ==
    IF ~(datetime_now(st) < end_time)
    THEN [st |-> st, metrics |-> metrics, fault |-> FALSE]
    ELSE LET sampled == Sleep(st, CpuSampleSeconds)
             metric == [timestamp |-> datetime_now(sampled), cpu_percent |-> env.cpu,
                        memory_percent |-> env.mem, disk_usage_percent |-> env.disk]
             appended == Append(metrics, metric)
             saved == IF b.save_metrics
                      THEN Insert(sampled, "system_metrics",
                                  [cpu_percent |-> env.cpu, memory_percent |-> env.mem,
                                   disk_usage |-> env.disk,
                                   recorded_at |-> CURRENT_TIMESTAMP(sampled)])
                      ELSE sampled
             slept == IF datetime_now(saved) < end_time
                      THEN Sleep(saved, b.interval_seconds) ELSE saved
         IN  IF b.save_metrics /\ env.db = "fault"
             THEN [st |-> sampled, metrics |-> appended, fault |-> TRUE]
             ELSE MonitorLoop(slept, appended, end_time, b, env)

MonitorLog(run, st) ==
    [BaseLog EXCEPT !.handler = "system_monitor", !.samples = Len(run.metrics),
                    !.opened = Len(run.st.system_metrics) - Len(st.system_metrics),
                    !.closed = Len(run.st.system_metrics) - Len(st.system_metrics),
                    !.committed = (run.st.system_metrics # st.system_metrics)]

Column(rows, col) == [i \in 1..Len(rows) |-> rows[i][col]]

Stats(values) ==
    [average |-> RoundedAverage(values), max |-> MaxOf(values), min |-> MinOf(values)]

\* a summary that keeps only the last ten samples in detailed_metrics
MonitorSummaryLastTen(b, metrics) ==
    [monitoring_duration_minutes |-> b.duration_minutes,
     samples_collected |-> Len(metrics),
     cpu_stats |-> Stats(Column(metrics, "cpu_percent")),
     memory_stats |-> Stats(Column(metrics, "memory_percent")),
     detailed_metrics |-> IF Len(metrics) <= 10 THEN metrics
                          ELSE SubSeq(metrics, Len(metrics) - 9, Len(metrics))]

MonitorSummary(b, metrics) ==
    [monitoring_duration_minutes |-> b.duration_minutes,
     samples_collected |-> Len(metrics),
     cpu_stats |-> Stats(Column(metrics, "cpu_percent")),
     memory_stats |-> Stats(Column(metrics, "memory_percent")),
     detailed_metrics |-> metrics]

MonitorResult(b, st, run) ==
    IF run.fault
    THEN HandlerFault(<<"Error monitoring system: ">>, DbFaultMsg, run.st, MonitorLog(run, st))
    ELSE IF run.metrics # << >>
    THEN Out(<<JsonText(MonitorSummary(b, run.metrics))>>, run.st, MonitorLog(run, st))
    ELSE Out(<<Text(<<"No metrics collected">>)>>, run.st, MonitorLog(run, st))

system_monitor(b, st, env) ==
    MonitorResult(b, st,
                  MonitorLoop(st, << >>,
                              datetime_now(st) + timedelta_minutes(b.duration_minutes),
                              b, env))

\* ------------------------------------------------------ api_integration
\* a lookup with the comparison turned round: ... AND cached_at <= ?
FreshRowsReversed(st, endpoint, cutoff) ==
    SelectSeq(st.api_cache,
              LAMBDA row : row.endpoint = endpoint
                           /\ ~TimestampTextGreater(row.cached_at, AdaptDatetime(cutoff)))

\* a lookup by age alone: WHERE cached_at > ?
FreshRowsAnyEndpoint(st, endpoint, cutoff) ==
    SelectSeq(st.api_cache,
              LAMBDA row : TimestampTextGreater(row.cached_at, AdaptDatetime(cutoff)))

\* SELECT response_data, cached_at FROM api_cache
\*  WHERE endpoint = ? AND cached_at > ?  -- fetchone(): the first match
FreshRows(st, endpoint, cutoff) ==
    SelectSeq(st.api_cache,
              LAMBDA row : row.endpoint = endpoint
                           /\ TimestampTextGreater(row.cached_at, AdaptDatetime(cutoff)))

\* the cache consulted whatever the method
UsesCacheAnyMethod(b) == b.use_cache

\* if use_cache and method == "GET"
UsesCache(b) == b.use_cache /\ b.method = "GET"

api_integration(b, st, env) ==
    LET log0 == [BaseLog EXCEPT !.handler = "api_integration"]
        prefix == <<"Error making API call: ">>
        lookup == UsesCache(b)
        log1 == IF lookup /\ env.db = "ok"
                THEN Close(Connect([log0 EXCEPT !.cacheRead = TRUE]))
                ELSE [log0 EXCEPT !.cacheRead = lookup]
        cutoff == datetime_now(st) - timedelta_hours(b.cache_duration_hours)
        cached == IF lookup THEN FreshRows(st, b.endpoint, cutoff) ELSE << >>
        log2 == [log1 EXCEPT !.fetched = TRUE]
        result == [endpoint |-> b.endpoint, method |-> b.method,
                   status_code |-> env.status, response |-> env.body]
    IN  IF lookup /\ env.db = "fault" THEN HandlerFault(prefix, DbFaultMsg, st, log1)
        ELSE IF cached # << >>
        THEN Out(<<[type |-> "text", text |-> <<"Cached response:\n">>,
                    json |-> cached[1].response_data]>>, st, log1)
        ELSE IF env.net = "fault" THEN HandlerFault(prefix, NetFaultMsg, st, log2)
        ELSE IF UsesCache(b) /\ env.status = 200
        THEN Out(<<JsonText(result)>>,
                 Insert(st, "api_cache",
                        [endpoint |-> b.endpoint, response_data |-> result,
                         cached_at |-> CURRENT_TIMESTAMP(st)]),
                 Close(Connect([log2 EXCEPT !.committed = TRUE])))
        ELSE Out(<<JsonText(result)>>, st, log2)


\* ------------------------------------------------------- database_query
\* A statement is a sequence of words; " " is a run of whitespace.
UpperMap == [select |-> "SELECT", from |-> "FROM", limit |-> "LIMIT",
             where |-> "WHERE", delete |-> "DELETE", insert |-> "INSERT",
             into |-> "INTO"]
UpperWord(w) ==
    IF w \in DOMAIN UpperMap THEN UpperMap[w]
    ELSE IF w = "'limit'" THEN "'LIMIT'"
    ELSE w

\* query.upper()
Upper(query) == [i \in 1..Len(query) |-> UpperWord(query[i])]

\* kw in text: a word equal to kw or having it inside
WordHas(w, kw) ==
    \/ w = kw
    \/ kw = "LIMIT" /\ w = "'LIMIT'"

Contains(text, kw) == \E i \in 1..Len(text) : WordHas(text[i], kw)

\* query.strip()
RECURSIVE LStrip(_)
LStrip(q) == IF q # << >> /\ Head(q) = " " THEN LStrip(Tail(q)) ELSE q
RECURSIVE RStrip(_)
RStrip(q) == IF q # << >> /\ q[Len(q)] = " " THEN RStrip(SubSeq(q, 1, Len(q) - 1)) ELSE q
Strip(q) == RStrip(LStrip(q))

StartsWith(text, kw) == text # << >> /\ text[1] = kw

\* -- what SQLite does with the statement --------------------------------
Tables == {"web_scrapes", "system_metrics", "api_cache"}
Columns ==
    [web_scrapes |-> <<"id", "url", "title", "content", "scraped_at">>,
     system_metrics |-> <<"id", "cpu_percent", "memory_percent", "disk_usage", "recorded_at">>,
     api_cache |-> <<"id", "endpoint", "response_data", "cached_at">>]

LimitWords == { ToString(n) : n \in {-1, 0, 1, 2, 3, 100} }
NumberOf(w) == CHOOSE n \in {-1, 0, 1, 2, 3, 100} : ToString(n) = w

NoSpace(q) == SelectSeq(q, LAMBDA w : w # " ")

\* LIMIT n: the first n rows, every row when n is negative
Capped(rows, cap) ==
    IF cap < 0 \/ cap >= Len(rows) THEN rows ELSE SubSeq(rows, 1, cap)

SqlError(msg) == [ok |-> FALSE, msg |-> msg]
SqlRows(st, cols, rows) ==
    [ok |-> TRUE, st |-> st, description |-> cols, rows |-> rows, rowcount |-> -1]
SqlDone(st, n) ==
    [ok |-> TRUE, st |-> st, description |-> << >>, rows |-> << >>, rowcount |-> n]

RECURSIVE InsertAll(_, _, _)
InsertAll(st, table, rows) ==
    IF rows = << >> THEN st
    ELSE InsertAll(Insert(st, table, Head(rows)), table, Tail(rows))

\* the statement proper with its keywords upper-cased, and its LIMIT clause
RunStatement(st, core, limited, cap) ==
    IF Len(core) = 4 /\ SubSeq(core, 1, 3) = <<"SELECT", "*", "FROM">> /\ core[4] \in Tables
    THEN SqlRows(st, Columns[core[4]], Capped(st[core[4]], cap))
    ELSE IF core = <<"SELECT", "*", "FROM", "web_scrapes", "WHERE", "url", "!=", "'LIMIT'">>
    THEN SqlRows(st, Columns.web_scrapes,
                 Capped(SelectSeq(st.web_scrapes, LAMBDA r : r.url # "limit"), cap))
    ELSE IF ~limited /\ Len(core) = 3 /\ SubSeq(core, 1, 2) = <<"DELETE", "FROM">>
            /\ core[3] \in Tables
    THEN SqlDone([st EXCEPT ![core[3]] = << >>], Len(st[core[3]]))
    ELSE IF core = <<"INSERT", "INTO", "web_scrapes", "(url)",
                     "SELECT", "endpoint", "FROM", "api_cache">>
    THEN SqlDone(InsertAll(st, "web_scrapes",
                           [i \in 1..Len(Capped(st.api_cache, cap)) |->
                              [url |-> st.api_cache[i].endpoint, title |-> NoneVal,
                               content |-> NoneVal, scraped_at |-> CURRENT_TIMESTAMP(st)]]),
                 Len(Capped(st.api_cache, cap)))
    ELSE SqlError(<<"syntax error">>)

HasLimitClause(q) ==
    Len(q) >= 2 /\ UpperWord(q[Len(q) - 1]) = "LIMIT" /\ q[Len(q)] \in LimitWords

\* one statement, without whitespace and without its closing semicolon
ParseStatement(st, q) ==
    IF HasLimitClause(q)
    THEN RunStatement(st, Upper(SubSeq(q, 1, Len(q) - 2)), TRUE, NumberOf(q[Len(q)]))
    ELSE RunStatement(st, Upper(q), FALSE, -1)

SplitStatements(st, q0) ==
    IF \E i \in 1..(Len(q0) - 1) : q0[i] = ";"
    THEN SqlError(<<"You can only execute one statement at a time.">>)
    ELSE IF q0 # << >> /\ q0[Len(q0)] = ";"
    THEN ParseStatement(st, SubSeq(q0, 1, Len(q0) - 1))
    ELSE ParseStatement(st, q0)

\* cursor.execute(query)
Execute(st, query) == SplitStatements(st, NoSpace(query))

\* if "LIMIT" not in query.upper() and "SELECT" in query.upper(): query += f" LIMIT {limit}"
AddLimit(query, limit) ==
    IF ~Contains(Upper(query), "LIMIT") /\ Contains(Upper(query), "SELECT")
    THEN query \o <<" ", "LIMIT", ToString(limit)>>
    ELSE query

\* query.strip().upper().startswith("SELECT")
IsSelect(query) == StartsWith(Upper(Strip(query)), "SELECT")

QueryLog(query) ==
    Connect([BaseLog EXCEPT !.handler = "database_query", !.executed = query])

QueryResult(query, run, st) ==
    IF ~run.ok THEN HandlerFault(<<"Database error: ">>, run.msg, st, QueryLog(query))
    ELSE IF IsSelect(query)
    THEN Out(<<JsonText([query |-> query, columns |-> run.description,
                         row_count |-> Len(run.rows), data |-> run.rows])>>,
             st, Close(QueryLog(query)))
    ELSE Out(<<JsonText([query |-> query, rows_affected |-> run.rowcount,
                         message |-> "Query executed successfully"])>>,
             run.st, Close([QueryLog(query) EXCEPT !.committed = TRUE]))

ExecuteQuery(query, st) == QueryResult(query, Execute(st, query), st)

database_query(b, st, env) ==
    IF env.db = "fault"
    THEN HandlerFault(<<"Database error: ">>, DbFaultMsg, st,
                      [BaseLog EXCEPT !.handler = "database_query"])
    ELSE ExecuteQuery(AddLimit(b.query, b.limit), st)

\* ------------------------------------------------------ generate_report
\* ORDER BY <time column> DESC: rows with equal timestamps stay in scan order
RECURSIVE OrderDesc(_, _)
OrderDesc(rows, col) ==
    IF rows = << >> THEN << >>
    ELSE LET top == CHOOSE i \in 1..Len(rows) :
                       /\ \A j \in 1..Len(rows) : rows[j][col] <= rows[i][col]
                       /\ \A j \in 1..(i - 1) : rows[j][col] < rows[i][col]
             rest == [k \in 1..(Len(rows) - 1) |-> IF k < top THEN rows[k] ELSE rows[k + 1]]
         IN  <<rows[top]>> \o OrderDesc(rest, col)

\* "Good" if sum(values) / len(values) < threshold else "Warning"
Status(values, threshold) ==
    IF SumSeq(values) < threshold * 10 * Len(values) THEN "Good" ELSE "Warning"

\* health_report[...]['average'] > threshold
Recommended(values, threshold) == RoundedAverage(values) > threshold * 100

CpuThreshold == 80
MemoryThreshold == 85
DiskThreshold == 90
ChartWindow == 50
MarkdownScrapes == 10

LastN(s, n) == IF Len(s) <= n THEN s ELSE SubSeq(s, Len(s) - n + 1, Len(s))

Analysis(values, threshold) ==
    [average |-> RoundedAverage(values), max |-> MaxOf(values), min |-> MinOf(values),
     status |-> Status(values, threshold)]

HealthReport(metrics) ==
    [report_type |-> "System Health Report",
     metrics_analyzed |-> Len(metrics),
     cpu_analysis |-> Analysis(Column(metrics, "cpu_percent"), CpuThreshold),
     memory_analysis |-> Analysis(Column(metrics, "memory_percent"), MemoryThreshold),
     disk_analysis |-> Analysis(Column(metrics, "disk_usage"), DiskThreshold)]

Recommendations(metrics) ==
    (IF Recommended(Column(metrics, "cpu_percent"), CpuThreshold)
     THEN <<"- Consider investigating high CPU usage processes\n">> ELSE << >>)
    \o (IF Recommended(Column(metrics, "memory_percent"), MemoryThreshold)
        THEN <<"- Memory usage is high, consider closing unnecessary applications\n">>
        ELSE << >>)
    \o (IF Recommended(Column(metrics, "disk_usage"), DiskThreshold)
        THEN <<"- Disk space is running low, consider cleanup\n">> ELSE << >>)

HealthText(b, metrics) ==
    IF b.format = "markdown"
    THEN [type |-> "text",
          text |-> <<"# System Health Report\n", "## Recommendations\n">>
                   \o Recommendations(metrics),
          json |-> HealthReport(metrics)]
    ELSE JsonText(HealthReport(metrics))

\* the figure: plt.plot(cpu_values[-50:]) and the like
HealthChart(metrics) ==
    [type |-> "image", mimeType |-> "image/png",
     plotted |-> LastN(Column(metrics, "cpu_percent"), ChartWindow)]

ReportLog == Connect([BaseLog EXCEPT !.handler = "generate_report"])

\* a report that renders its sections without looking at the row count
SystemHealthUnguarded(b, st, env, metrics) ==
    IF b.include_charts
    THEN Out(<<Text(<<"# System Health Report\n">>),
               [type |-> "image", mimeType |-> "image/png", plotted |-> << >>]>>,
             st, ReportLog)
    ELSE Out(<<Text(<<"# System Health Report\n">>)>>, st, ReportLog)

SystemHealth(b, st, env, metrics) ==
    IF metrics # << >>
    THEN IF b.include_charts
         THEN IF env.chart = "fault"
              THEN HandlerFault(<<"Error generating report: ">>, ChartFaultMsg, st, ReportLog)
              ELSE Out(<<HealthText(b, metrics), HealthChart(metrics)>>, st, ReportLog)
         ELSE Out(<<HealthText(b, metrics)>>, st, ReportLog)
    ELSE Out(<<Text(<<"No system metrics available for report">>)>>, st, ReportLog)

WebAnalysis(b, st, scrapes) ==
    IF scrapes # << >>
    THEN IF b.format = "markdown"
         THEN Out(<<[type |-> "text", text |-> <<"# Web Scraping Analysis Report\n">>,
                     json |-> [total_scrapes |-> Len(scrapes),
                               scrapes |-> Capped(scrapes, MarkdownScrapes)]]>>,
                  st, ReportLog)
         ELSE Out(<<JsonText([report_type |-> "Web Scraping Analysis",
                              total_scrapes |-> Len(scrapes), scrapes |-> scrapes])>>,
                  st, ReportLog)
    ELSE Out(<<Text(<<"No web scraping data available for report">>)>>, st, ReportLog)

DataSummary(b, st, summary) ==
    IF b.format = "markdown"
    THEN Out(<<[type |-> "text", text |-> <<"# Data Summary Report\n">>, json |-> summary]>>,
             st, ReportLog)
    ELSE Out(<<JsonText(summary)>>, st, ReportLog)

\* conn.close(); return results -- reached when nothing raised
CloseOnReturn(out) == IF out.log.fault THEN out ELSE [out EXCEPT !.log = Close(@)]

ReportBranch(b, st, env) ==
    IF b.report_type = "system_health"
    THEN SystemHealth(b, st, env,
                      Capped(OrderDesc(st.system_metrics, "recorded_at"), HealthRowCap))
    ELSE IF b.report_type = "web_analysis"
    THEN WebAnalysis(b, st, Capped(OrderDesc(st.web_scrapes, "scraped_at"), WebRowCap))
    ELSE IF b.report_type = "data_summary"
    THEN DataSummary(b, st, [report_type |-> "Data Summary Report",
                             web_scrapes_count |-> Len(st.web_scrapes),
                             system_metrics_count |-> Len(st.system_metrics),
                             api_cache_count |-> Len(st.api_cache)])
    ELSE Out(<< >>, st, ReportLog)

generate_report(b, st, env) ==
    IF env.db = "fault"
    THEN HandlerFault(<<"Error generating report: ">>, DbFaultMsg, st,
                      [BaseLog EXCEPT !.handler = "generate_report"])
    ELSE CloseOnReturn(ReportBranch(b, st, env))

\* ------------------------------------------------------ handle_call_tool
Handler(name, b, st, env) ==
    IF name = "scrape_website" THEN scrape_website(b, st, env)
    ELSE IF name = "analyze_data" THEN analyze_data(b, st, env)
    ELSE IF name = "system_monitor" THEN system_monitor(b, st, env)
    ELSE IF name = "file_operations" THEN file_operations(b, st, env)
    ELSE IF name = "api_integration" THEN api_integration(b, st, env)
    ELSE IF name = "database_query" THEN database_query(b, st, env)
    ELSE generate_report(b, st, env)

\* self.<name>(**arguments)
Invoke(name, binding, st, env) ==
    IF binding.raised THEN binding @@ [st |-> st, log |-> BaseLog]
    ELSE Handler(name, binding.bound, st, env)

\* the else branch raising without the name
TryBodyUnnamed(name, args, st, env) ==
    IF name \in {"scrape_website", "analyze_data", "system_monitor", "file_operations",
                 "api_integration", "database_query", "generate_report"}
    THEN LET binding == Bind(name, args) IN Invoke(name, binding, st, env)
    ELSE Raise(<<"Unknown tool">>) @@ [st |-> st, log |-> BaseLog]

\* the body of the try block: a branch per name, else raise ValueError
TryBody(name, args, st, env) ==
    IF name \in {"scrape_website", "analyze_data", "system_monitor", "file_operations",
                 "api_integration", "database_query", "generate_report"}
    THEN LET binding == Bind(name, args) IN Invoke(name, binding, st, env)
    ELSE Raise(<<"Unknown tool: ", name>>) @@ [st |-> st, log |-> BaseLog]

\* the handler without its try/except: the exception leaves it
ExceptUncaught(tried) == tried

\* except Exception as e: return [TextContent(text=f"Error: {str(e)}")]
Except(tried) ==
    IF tried.raised
    THEN Out(<<Text(<<"Error: ">> \o tried.msg)>>, tried.st, tried.log)
    ELSE tried

handle_call_tool(name, args, st, env) == Except(TryBody(name, args, st, env))

\* ---------------------------------------------------------------- state
VARIABLES web_scrapes, system_metrics, api_cache,  \* the three tables
          seq,        \* sqlite_sequence: the last AUTOINCREMENT id per table
          now,        \* the UTC clock, in units
          tz,         \* the host's UTC offset, in hours
          runs,       \* system_monitor calls that have taken clock time
          call,       \* the request being answered: name, arguments, environment
          pre,        \* the store as that request found it
          result,     \* the content blocks returned for it
          propagated, \* an exception left handle_call_tool instead
          log,        \* what the handler did while serving it
          mon         \* a system_monitor call in progress: its position and locals

vars == <<web_scrapes, system_metrics, api_cache, seq, now, tz, runs,
          call, pre, result, propagated, log, listings, mon>>

Store == [web_scrapes |-> web_scrapes, system_metrics |-> system_metrics,
          api_cache |-> api_cache, seq |-> seq, now |-> now, tz |-> tz]

NoCall == [name |-> "<none>"]
NoMonitor == [pc |-> "idle"]
TZOffsets == {-1, 0, 1}
StartUnits == StartHour * HourUnits

\* init_database on a fresh temporary file, on a host at UTC offset tz
InitAt(offsets) ==
    /\ web_scrapes = << >>
    /\ system_metrics = << >>
    /\ api_cache = << >>
    /\ seq = [web_scrapes |-> 0, system_metrics |-> 0, api_cache |-> 0]
    /\ now = StartUnits
    /\ tz \in offsets
    /\ runs = 0
    /\ call = NoCall
    /\ pre = [web_scrapes |-> << >>, system_metrics |-> << >>, api_cache |-> << >>,
              seq |-> [web_scrapes |-> 0, system_metrics |-> 0, api_cache |-> 0],
              now |-> StartUnits, tz |-> tz]
    /\ result = << >>
    /\ propagated = FALSE
    /\ log = BaseLog
    /\ listings = << >>
    /\ mon = NoMonitor

Init == InitAt({0})

\* a call that adds rows or takes clock time stays within the bounds
WithinBounds(st) ==
    /\ st.seq.web_scrapes # seq.web_scrapes => st.seq.web_scrapes <= MaxScrapeRows
    /\ st.seq.system_metrics # seq.system_metrics => st.seq.system_metrics <= MaxMetricRows
    /\ st.seq.api_cache # seq.api_cache => st.seq.api_cache <= MaxCacheRows
    /\ st.now # now => runs < MaxMonitorRuns

\* the transport hands over one call-tool request; it is served to completion
CallTool(name, args, env) ==
    /\ call = NoCall
    /\ \E out \in {handle_call_tool(name, args, Store, env)} :
        /\ WithinBounds(out.st)
        /\ web_scrapes' = out.st.web_scrapes
        /\ system_metrics' = out.st.system_metrics
        /\ api_cache' = out.st.api_cache
        /\ seq' = out.st.seq
        /\ now' = out.st.now
        /\ runs' = IF out.st.now # now THEN runs + 1 ELSE runs
        /\ tz' = tz
        /\ call' = [name |-> name, args |-> args, env |-> env]
        /\ pre' = Store
        /\ result' = (IF out.raised THEN << >> ELSE out.blocks)
        /\ propagated' = out.raised
        /\ log' = out.log
        /\ UNCHANGED <<listings, mon>>

\* the transport sends the result; the server waits for the next request
Reply ==
    /\ call # NoCall
    /\ mon.pc \in {"idle", "done"}
    /\ mon' = NoMonitor
    /\ call' = NoCall
    /\ pre' = Store
    /\ result' = << >>
    /\ propagated' = FALSE
    /\ log' = BaseLog
    /\ UNCHANGED <<web_scrapes, system_metrics, api_cache, seq, now, tz, runs, listings>>

\* time passing between requests
Passes(units) ==
    /\ call = NoCall
    /\ now' = now + units
    /\ pre' = [Store EXCEPT !.now = now + units]
    /\ UNCHANGED <<web_scrapes, system_metrics, api_cache, seq, tz, runs,
                   call, result, propagated, log, listings, mon>>

AdvanceUnit ==
    /\ (now + 1) % UnitsPerSecond # 0
    /\ Passes(1)

AdvanceHour ==
    /\ now + HourUnits <= StartUnits + MaxHours * HourUnits + UnitsPerSecond
    /\ Passes(HourUnits)

\* ------------------------------------------------------- request inputs
Restrict(r, K) == [k \in K |-> r[k]]
With(r, k, v) == [x \in DOMAIN r \cup {k} |-> IF x = k THEN v ELSE r[x]]

\* every way of leaving out at most one field, the required-only bag, the
\* empty bag, and the whole and the empty bag with an undeclared field added
Bags(fulls, required) ==
    LET shapes(f) == {DOMAIN f, required, {}} \cup { DOMAIN f \ {k} : k \in DOMAIN f }
        declared == UNION { { Restrict(f, K) : K \in shapes(f) } : f \in fulls }
    IN  declared \cup { With(a, "bogus", 1) : a \in fulls \cup {<< >>} }

EnvBase == [net |-> "ok", status |-> 200, db |-> "ok", fs |-> "ok", numeric |-> TRUE,
            chart |-> "ok", title |-> "T", body |-> "r1",
            cpu |-> 500, mem |-> 500, disk |-> 500]

NetEnvs == {EnvBase, [EnvBase EXCEPT !.net = "fault"], [EnvBase EXCEPT !.status = 404],
            [EnvBase EXCEPT !.db = "fault"]}
FileEnvs == {EnvBase, [EnvBase EXCEPT !.fs = "missing"], [EnvBase EXCEPT !.fs = "fault"],
             [EnvBase EXCEPT !.numeric = FALSE], [EnvBase EXCEPT !.chart = "fault"]}
StoreEnvs == {EnvBase, [EnvBase EXCEPT !.db = "fault"]}
ReportEnvs == StoreEnvs \cup {[EnvBase EXCEPT !.chart = "fault"]}

ScrapeBags ==
    Bags({[url |-> "U1", extract_links |-> FALSE, extract_images |-> FALSE, save_to_db |-> TRUE],
          [url |-> "U1", extract_links |-> TRUE, extract_images |-> TRUE, save_to_db |-> FALSE]},
         {"url"})
AnalyzeBags ==
    Bags({[file_path |-> "data.csv", analysis_type |-> "correlation", create_visualization |-> TRUE],
          [file_path |-> "data.csv", analysis_type |-> "summary", create_visualization |-> FALSE],
          [file_path |-> "data.csv", analysis_type |-> "pivot", create_visualization |-> TRUE]},
         {"file_path", "analysis_type"})
MonitorBags ==
    Bags({[duration_minutes |-> 1, interval_seconds |-> 10, save_metrics |-> TRUE],
          [duration_minutes |-> 0, interval_seconds |-> 60, save_metrics |-> FALSE]}, {})
FileBags ==
    Bags({[operation |-> "search", path |-> "/tmp", pattern |-> "todo", options |-> NoneVal],
          [operation |-> "compare", path |-> "/tmp", pattern |-> "todo", options |-> NoneVal],
          [operation |-> "shred", path |-> "/tmp", pattern |-> "todo", options |-> NoneVal]},
         {"operation", "path"})
ApiBags ==
    Bags({[endpoint |-> "E1", method |-> "GET", headers |-> NoneVal, data |-> NoneVal,
           use_cache |-> TRUE, cache_duration_hours |-> 1],
          [endpoint |-> "E1", method |-> "POST", headers |-> NoneVal, data |-> NoneVal,
           use_cache |-> FALSE, cache_duration_hours |-> 2],
          [endpoint |-> "E1", method |-> "PATCH", headers |-> NoneVal, data |-> NoneVal,
           use_cache |-> TRUE, cache_duration_hours |-> 1]},
         {"endpoint"})
QueryBags ==
    Bags({[query |-> <<"SELECT", "*", "FROM", "web_scrapes">>, table |-> "web_scrapes",
           limit |-> 1],
          [query |-> <<"DELETE", "FROM", "api_cache">>, table |-> "users", limit |-> 100]},
         {"query"})
ReportBags ==
    Bags({[report_type |-> "system_health", format |-> "markdown", include_charts |-> TRUE],
          [report_type |-> "web_analysis", format |-> "json", include_charts |-> FALSE],
          [report_type |-> "data_summary", format |-> "pdf", include_charts |-> TRUE],
          [report_type |-> "audit", format |-> "markdown", include_charts |-> TRUE]},
         {"report_type"})
    \cup [report_type : {"system_health"}, format : {"markdown", "json", "html"},
          include_charts : BOOLEAN]

ScrapeWebsite == \E args \in ScrapeBags, env \in NetEnvs : CallTool("scrape_website", args, env)
AnalyzeData == \E args \in AnalyzeBags, env \in FileEnvs : CallTool("analyze_data", args, env)
SystemMonitor == \E args \in MonitorBags, env \in StoreEnvs : CallTool("system_monitor", args, env)
FileOperations == \E args \in FileBags, env \in FileEnvs : CallTool("file_operations", args, env)
ApiIntegration == \E args \in ApiBags, env \in NetEnvs : CallTool("api_integration", args, env)
DatabaseQuery == \E args \in QueryBags, env \in StoreEnvs : CallTool("database_query", args, env)
GenerateReport == \E args \in ReportBags, env \in ReportEnvs : CallTool("generate_report", args, env)
UnknownTool ==
    \E args \in {<< >>, [url |-> "U1"]} : CallTool("no_such_tool", args, EnvBase)

Next ==
    \/ ScrapeWebsite
    \/ AnalyzeData
    \/ SystemMonitor
    \/ FileOperations
    \/ ApiIntegration
    \/ DatabaseQuery
    \/ GenerateReport
    \/ UnknownTool
    \/ Reply

Spec == Init /\ [][Next]_vars


\* ------------------------------------------- the cache over time and zones
InitAnyZone == InitAt(TZOffsets)

CacheBags ==
    [endpoint : {"E1", "E2"}, method : {"GET", "POST"}, use_cache : BOOLEAN,
     cache_duration_hours : {1, 2}]
    \cup [endpoint : {"E1"}, method : {"GET", "get"}]

CacheEnvs == {EnvBase, [EnvBase EXCEPT !.body = "r2"], [EnvBase EXCEPT !.status = 404],
              [EnvBase EXCEPT !.net = "fault"]}

CachedApiIntegration ==
    \E args \in CacheBags, env \in CacheEnvs : CallTool("api_integration", args, env)

NextCache ==
    \/ CachedApiIntegration
    \/ Reply
    \/ AdvanceUnit
    \/ AdvanceHour

SpecCache == InitAnyZone /\ [][NextCache]_vars

\* --------------------------------------------------- statements and limits
Statements ==
    { <<"SELECT", "*", "FROM", "web_scrapes">>,
      <<" ", "select", "*", "from", "api_cache", " ">>,
      <<"SELECT", "*", "FROM", "web_scrapes", "LIMIT", "1">>,
      <<"SELECT", "*", "FROM", "web_scrapes", "limit", "3">>,
      <<"SELECT", "*", "FROM", "web_scrapes", "WHERE", "url", "!=", "'limit'">>,
      <<"SELECT", "*", "FROM", "web_scrapes", ";">>,
      <<"SELECT", "*", "FROM", "users">>,
      <<"DELETE", "FROM", "web_scrapes">>,
      <<"INSERT", "INTO", "web_scrapes", "(url)", "SELECT", "endpoint", "FROM", "api_cache">> }

StatementBags == [query : Statements, limit : {1, 2}] \cup [query : Statements]

StatementQuery ==
    \E args \in StatementBags, env \in StoreEnvs : CallTool("database_query", args, env)
StoredScrape ==
    \E url \in {"U1", "U2"} : CallTool("scrape_website", [url |-> url], EnvBase)
StoredResponse ==
    \E e \in {"E1", "E2"} : CallTool("api_integration", [endpoint |-> e], EnvBase)

NextQuery ==
    \/ StatementQuery
    \/ StoredScrape
    \/ StoredResponse
    \/ Reply

SpecQuery == Init /\ [][NextQuery]_vars

\* --------------------------------------------------- listing the catalog
\* the transport hands over a list-tools request between two tool calls
ListTools ==
    /\ call = NoCall
    /\ Len(listings) < MaxListings
    /\ listings' = Append(listings, [tools |-> handle_list_tools, seq |-> seq])
    /\ UNCHANGED <<web_scrapes, system_metrics, api_cache, seq, now, tz, runs,
                   call, pre, result, propagated, log, mon>>

NextCatalog ==
    \/ ListTools
    \/ ScrapeWebsite
    \/ DatabaseQuery
    \/ UnknownTool
    \/ Reply

SpecCatalog == Init /\ [][NextCatalog]_vars

\* ------------------------------------------- system_monitor, step by step
\* The coroutine's positions: "while" (the loop test), "sample"
\* (psutil.cpu_percent(interval=1) and metrics.append), "save" (the optional
\* INSERT), "pause" (the test before asyncio.sleep), "return", "done".
MonitorArgs ==
    [duration_minutes : {-1, 0, 1}, interval_seconds : {-5, 0, 10, 58, 90},
     save_metrics : BOOLEAN]
    \cup {<< >>, [duration_minutes |-> 0], [interval_seconds |-> 58]}

MonitorEnvs == {EnvBase, [EnvBase EXCEPT !.db = "fault"]}

MonitorBound == Bind("system_monitor", call.args).bound

MonitorAt(pc) == call # NoCall /\ call.name = "system_monitor" /\ mon.pc = pc

\* metrics = []; end_time = datetime.now() + timedelta(minutes=duration_minutes)
MonitorStart(args, env) ==
    /\ call = NoCall
    /\ runs < MaxMonitorRuns
    /\ runs' = runs + 1
    /\ call' = [name |-> "system_monitor", args |-> args, env |-> env]
    /\ pre' = Store
    /\ mon' = [pc |-> "while", metrics |-> << >>, iterations |-> 0, slept |-> 0,
               end_time |-> datetime_now(Store)
                            + timedelta_minutes(Bind("system_monitor", args).bound.duration_minutes)]
    /\ log' = [BaseLog EXCEPT !.handler = "system_monitor"]
    /\ UNCHANGED <<web_scrapes, system_metrics, api_cache, seq, now, tz,
                   result, propagated, listings>>

\* while datetime.now() < end_time:
MonitorWhile ==
    /\ MonitorAt("while")
    /\ mon' = IF datetime_now(Store) < mon.end_time
              THEN [mon EXCEPT !.pc = "sample", !.iterations = @ + 1]
              ELSE [mon EXCEPT !.pc = "return"]
    /\ UNCHANGED <<web_scrapes, system_metrics, api_cache, seq, now, tz, runs,
                   call, pre, result, propagated, log, listings>>

\* cpu_percent(interval=1) blocks for a second; metrics.append(metric)
MonitorSample ==
    /\ MonitorAt("sample")
    /\ now' = Sleep(Store, CpuSampleSeconds).now
    /\ mon' = [mon EXCEPT !.pc = "save",
                          !.metrics = Append(@,
                              [timestamp |-> datetime_now(Sleep(Store, CpuSampleSeconds)),
                               cpu_percent |-> call.env.cpu,
                               memory_percent |-> call.env.mem,
                               disk_usage_percent |-> call.env.disk])]
    /\ log' = [log EXCEPT !.samples = @ + 1]
    /\ UNCHANGED <<web_scrapes, system_metrics, api_cache, seq, tz, runs,
                   call, pre, result, propagated, listings>>

\* if save_metrics: connect, INSERT, commit, close; a failure there is caught
\* by the handler's except clause
MonitorSave ==
    /\ MonitorAt("save")
    /\ IF ~MonitorBound.save_metrics
       THEN /\ mon' = [mon EXCEPT !.pc = "pause"]
            /\ UNCHANGED <<system_metrics, seq, result, log>>
       ELSE IF call.env.db = "fault"
       THEN /\ mon' = [mon EXCEPT !.pc = "done"]
            /\ result' = <<Text(<<"Error monitoring system: ">> \o DbFaultMsg)>>
            /\ log' = [log EXCEPT !.fault = TRUE, !.faultMsg = DbFaultMsg]
            /\ UNCHANGED <<system_metrics, seq>>
       ELSE \E saved \in {Insert(Store, "system_metrics",
                                 [cpu_percent |-> call.env.cpu,
                                  memory_percent |-> call.env.mem,
                                  disk_usage |-> call.env.disk,
                                  recorded_at |-> CURRENT_TIMESTAMP(Store)])} :
              /\ system_metrics' = saved.system_metrics
              /\ seq' = saved.seq
              /\ mon' = [mon EXCEPT !.pc = "pause"]
              /\ log' = Close(Connect([log EXCEPT !.committed = TRUE]))
              /\ UNCHANGED result
    /\ UNCHANGED <<web_scrapes, api_cache, now, tz, runs, call, pre, propagated, listings>>

\* asyncio.sleep however late it is
MonitorPauseAlways ==
    /\ MonitorAt("pause")
    /\ now' = Sleep(Store, MonitorBound.interval_seconds).now
    /\ mon' = [mon EXCEPT !.pc = "while", !.slept = now' - now]
    /\ UNCHANGED <<web_scrapes, system_metrics, api_cache, seq, tz, runs,
                   call, pre, result, propagated, log, listings>>

\* if datetime.now() < end_time: await asyncio.sleep(interval_seconds)
MonitorPause ==
    /\ MonitorAt("pause")
    /\ now' = IF datetime_now(Store) < mon.end_time
              THEN Sleep(Store, MonitorBound.interval_seconds).now
              ELSE now
    /\ mon' = [mon EXCEPT !.pc = "while", !.slept = now' - now]
    /\ UNCHANGED <<web_scrapes, system_metrics, api_cache, seq, tz, runs,
                   call, pre, result, propagated, log, listings>>

\* if metrics: return the summary; else: return "No metrics collected"
MonitorReturn ==
    /\ MonitorAt("return")
    /\ result' = IF mon.metrics # << >>
                 THEN <<JsonText(MonitorSummary(MonitorBound, mon.metrics))>>
                 ELSE <<Text(<<"No metrics collected">>)>>
    /\ mon' = [mon EXCEPT !.pc = "done"]
    /\ UNCHANGED <<web_scrapes, system_metrics, api_cache, seq, now, tz, runs,
                   call, pre, propagated, log, listings>>

MonitorStep ==
    \/ MonitorWhile
    \/ MonitorSample
    \/ MonitorSave
    \/ MonitorPause
    \/ MonitorReturn

MonitorCall == \E args \in MonitorArgs, env \in MonitorEnvs : MonitorStart(args, env)

NextMonitor ==
    \/ MonitorCall
    \/ MonitorStep
    \/ Reply

\* the event loop runs the coroutine whenever it can take a step
SpecMonitor == Init /\ [][NextMonitor]_vars /\ WF_vars(MonitorStep)

\* ------------------------------- the tools that write the store themselves
AppendScrape ==
    \E env \in {EnvBase, [EnvBase EXCEPT !.db = "fault"]} :
        CallTool("scrape_website", [url |-> "U1"], env)
AppendResponse ==
    \E args \in [endpoint : {"E1"}, use_cache : BOOLEAN],
       env \in {EnvBase, [EnvBase EXCEPT !.status = 404]} :
        CallTool("api_integration", args, env)
AppendMetrics ==
    \E args \in {[duration_minutes |-> 1, interval_seconds |-> 90],
                 [duration_minutes |-> 0]}, env \in StoreEnvs :
        CallTool("system_monitor", args, env)
AppendReport ==
    \E args \in [report_type : {"system_health", "web_analysis", "data_summary"}] :
        CallTool("generate_report", args, EnvBase)

NextAppend ==
    \/ AppendScrape
    \/ AppendResponse
    \/ AppendMetrics
    \/ AppendReport
    \/ AdvanceHour
    \/ Reply

SpecAppend == Init /\ [][NextAppend]_vars

\* ------------------------------ the cache under one freshness window
\* every call leaves cache_duration_hours at the signature's default
DefaultWindowApiIntegration ==
    \E args \in [endpoint : {"E1", "E2"}, method : {"GET", "POST"}, use_cache : BOOLEAN],
       env \in CacheEnvs :
        CallTool("api_integration", args, env)

NextWindow ==
    \/ DefaultWindowApiIntegration
    \/ Reply
    \/ AdvanceUnit
    \/ AdvanceHour

SpecWindow == InitAnyZone /\ [][NextWindow]_vars

\* ------------------------------------- reports over a recorded history
\* The store after earlier system_monitor calls recorded n samples a second
\* apart: up to MaxExtraRows more than the charts' window, and one more than
\* the report's SELECT retrieves. The readings (tenths of a percent, the same
\* for CPU, memory and disk) are steady at or next to a threshold, steady
\* with the last one a tenth higher, or rising by a tenth per sample.
InitRecorded ==
    /\ \E n \in {1, 2} \cup (ChartWindow - 1)..(ChartWindow + MaxExtraRows)
                      \cup {HealthRowCap + 1} :
        \E reading \in
              { [i \in 1..n |-> 10 * t + d] :
                  t \in {CpuThreshold, MemoryThreshold, DiskThreshold}, d \in {-1, 0, 1} }
              \cup { [i \in 1..n |-> IF i = n THEN 10 * t + 1 ELSE 10 * t] :
                       t \in {CpuThreshold, MemoryThreshold, DiskThreshold} }
              \cup { [i \in 1..n |-> i] } :
            system_metrics =
                [i \in 1..n |->
                    [id |-> i, cpu_percent |-> reading[i], memory_percent |-> reading[i],
                     disk_usage |-> reading[i],
                     recorded_at |-> StartUnits \div UnitsPerSecond - n + i]]
    /\ web_scrapes = << >>
    /\ api_cache = << >>
    /\ seq = [web_scrapes |-> 0, system_metrics |-> Len(system_metrics), api_cache |-> 0]
    /\ now = StartUnits
    /\ tz = 0
    /\ runs = 0
    /\ call = NoCall
    /\ pre = Store
    /\ result = << >>
    /\ propagated = FALSE
    /\ log = BaseLog
    /\ listings = << >>
    /\ mon = NoMonitor

RecordedReport ==
    \E args \in [report_type : {"system_health"}, format : {"markdown", "json"},
                  include_charts : BOOLEAN],
       env \in {EnvBase, [EnvBase EXCEPT !.chart = "fault"]} :
        CallTool("generate_report", args, env)

NextHealth ==
    \/ RecordedReport
    \/ Reply

SpecHealth == InitRecorded /\ [][NextHealth]_vars

\* ================================================================ claims
Served == call # NoCall
Registered == Served /\ call.name \in ToolNames
Tables3(st) == <<st.web_scrapes, st.system_metrics, st.api_cache>>
IsText(block) == block.type = "text"
OneText == Len(result) = 1 /\ IsText(result[1])
HasText(block) == "text" \in DOMAIN block
Says(block, frag) == HasText(block) /\ \E i \in 1..Len(block.text) : block.text[i] = frag

\* the schema's required fields the bag lacks, in declaration order
MissingRequired(name, args) ==
    SelectSeq(ToolDef(name).required, LAMBDA f : f \notin DOMAIN args)
Undeclared(name, args) == DOMAIN args \ SchemaPropNames(name)

\* what the same request, with other arguments, returns from the same store
Replay(args) == handle_call_tool(call.name, args, pre, call.env)
SameAs(out) == ~propagated /\ ~out.raised /\ out.blocks = result /\ out.st = Store

\* C1: whatever the name and the argument bag, the call returns a sequence of
\* content blocks; no exception raised by binding or by a handler leaves
\* handle_call_tool.
C1_NeverPropagates ==
    Served => /\ ~propagated
              /\ DOMAIN result = 1..Len(result)
              /\ \A i \in 1..Len(result) : result[i].type \in {"text", "image"}

C1_Witness ==
    /\ Registered
    /\ Bind(call.name, call.args).raised
    /\ OneText /\ Says(result[1], "Error: ")

\* C2: an unregistered name yields exactly one text block holding
\* "Unknown tool" and the name, runs no handler and leaves the tables alone.
C2_UnknownTool ==
    (Served /\ call.name \notin ToolNames) =>
        /\ OneText
        /\ Says(result[1], "Unknown tool: ") /\ Says(result[1], call.name)
        /\ log.handler = "none"
        /\ Tables3(Store) = Tables3(pre)

C2_Witness ==
    /\ Served /\ call.name = "no_such_tool"
    /\ result = <<Text(<<"Error: ", "Unknown tool: ", "no_such_tool">>)>>

\* C3: a registered tool called with a required parameter absent returns one
\* text block reporting the first missing field in schema order, without
\* running the handler body and without a raised fault.
C3_FirstMissingReported ==
    (Registered /\ MissingRequired(call.name, call.args) # << >>) =>
        /\ ~propagated
        /\ OneText
        /\ Says(result[1], MissingRequired(call.name, call.args)[1])
        /\ log.handler = "none"

\* C4: an undeclared field is ignored: the call is handled exactly as the same
\* call without it.
C4_UnknownFieldIgnored ==
    (/\ Registered
     /\ Undeclared(call.name, call.args) # {}
     /\ MissingRequired(call.name, call.args) = << >>) =>
        SameAs(Replay(Restrict(call.args, DOMAIN call.args \cap SchemaPropNames(call.name))))

\* C5: leaving out a parameter whose schema declares a default is the same as
\* passing that default.
C5_OmittedIsSchemaDefault ==
    Registered =>
        \A p \in SchemaPropNames(call.name) \ DOMAIN call.args :
            SchemaProp(call.name, p).hasDefault =>
                SameAs(Replay(With(call.args, p, SchemaProp(call.name, p).default)))

C5_Witness ==
    /\ Registered /\ call.name = "database_query"
    /\ DOMAIN call.args = {"query", "table"}
    /\ call.args.query = <<"SELECT", "*", "FROM", "web_scrapes">>
    /\ log.executed = <<"SELECT", "*", "FROM", "web_scrapes", " ", "LIMIT", "100">>

\* the parameters whose schema lists allowed values, given a value outside them
OutsideEnum(name, args) ==
    { p \in DOMAIN args \cap SchemaPropNames(name) :
        SchemaProp(name, p).enum # {} /\ args[p] \notin SchemaProp(name, p).enum }

\* C6: a value outside a parameter's enumerated set is rejected before the
\* handler runs, with a single text block.
C6_EnumRejected ==
    (Registered /\ OutsideEnum(call.name, call.args) # {}) =>
        /\ log.handler = "none"
        /\ OneText

\* the text each handler's own except clause puts before str(e)
FaultPrefix ==
    IF call.name = "scrape_website" THEN <<"Error scraping ", call.args.url, ": ">>
    ELSE IF call.name = "analyze_data" THEN <<"Error analyzing data: ">>
    ELSE IF call.name = "system_monitor" THEN <<"Error monitoring system: ">>
    ELSE IF call.name = "file_operations" THEN <<"Error in file operation: ">>
    ELSE IF call.name = "api_integration" THEN <<"Error making API call: ">>
    ELSE IF call.name = "database_query" THEN <<"Database error: ">>
    ELSE <<"Error generating report: ">>

\* C7 as stated: a handler's internal fault yields one text block reading
\* "Error: " followed by the fault's message.
C7_ErrorPrefix ==
    (Served /\ log.fault) => result = <<Text(<<"Error: ">> \o log.faultMsg)>>

\* C7 amended: a fault reaching a handler's own except clause yields one text
\* block reading that handler's prefix followed by the fault's message; the
\* "Error: " prefix is produced only when no handler body ran.
C7_HandlerPrefix ==
    /\ (Served /\ log.fault) => result = <<Text(FaultPrefix \o log.faultMsg)>>
    /\ (Served /\ Len(result) >= 1 /\ Says(result[1], "Error: ")) => log.handler = "none"

C7_Witness ==
    /\ Served /\ call.name = "scrape_website" /\ call.env.net = "fault"
    /\ result = <<Text(<<"Error scraping ", "U1", ": ", "Cannot connect to host">>)>>


\* the arguments as the handler receives them
Bound == Bind(call.name, call.args).bound
Calls(name) == Registered /\ call.name = name /\ ~Bind(call.name, call.args).raised

\* the rows cached for the endpoint that are younger than the window, both
\* times taken on the UTC clock
StoredFor(endpoint) == SelectSeq(pre.api_cache, LAMBDA row : row.endpoint = endpoint)
YoungerThan(rows, hours) ==
    SelectSeq(rows, LAMBDA row :
        pre.now < row.cached_at * UnitsPerSecond + hours * HourUnits)
OlderThan(rows, hours) ==
    SelectSeq(rows, LAMBDA row :
        pre.now >= (row.cached_at + 1) * UnitsPerSecond + hours * HourUnits)

\* C8: a cached GET issued before the row's age reaches ttl returns the stored
\* entry; one issued after finds no fresh entry though the row is still in
\* api_cache; cached_at and the cutoff are on the same time base.
C8_CacheRoundTrip ==
    (Calls("api_integration") /\ Bound.use_cache /\ Bound.method = "GET"
       /\ call.env.db = "ok") =>
        LET mine == StoredFor(Bound.endpoint)
            young == YoungerThan(mine, Bound.cache_duration_hours)
        IN  /\ young # << >> =>
                /\ ~log.fetched
                /\ \E i \in 1..Len(young) :
                     result = <<[type |-> "text", text |-> <<"Cached response:\n">>,
                                 json |-> young[i].response_data]>>
            /\ (mine # << >> /\ OlderThan(mine, Bound.cache_duration_hours) = mine) =>
                /\ log.fetched
                /\ \A i \in 1..Len(mine) : \E j \in 1..Len(api_cache) : api_cache[j] = mine[i]

\* C9: api_integration reads and writes api_cache only when use_cache is true
\* and the method is GET, and inserts a row only after a fetch answered 200.
C9_CacheOnlyForCachedGet ==
    Calls("api_integration") =>
        /\ log.cacheRead => (Bound.use_cache /\ Bound.method = "GET")
        /\ ~(Bound.use_cache /\ Bound.method = "GET") => api_cache = pre.api_cache
        /\ api_cache # pre.api_cache =>
             /\ log.fetched /\ call.env.status = 200
             /\ Len(api_cache) = Len(pre.api_cache) + 1
             /\ SubSeq(api_cache, 1, Len(pre.api_cache)) = pre.api_cache
             /\ api_cache[Len(api_cache)].endpoint = Bound.endpoint

C9_Witness ==
    /\ Calls("api_integration")
    /\ Bound.use_cache /\ Bound.method = "GET" /\ call.env.status = 200
    /\ Len(api_cache) = Len(pre.api_cache) + 1
    /\ Len(pre.api_cache) = 1

\* a read statement: its first word is SELECT; its explicit cap: a closing LIMIT n
ReadStatement(q) == NoSpace(q) # << >> /\ UpperWord(NoSpace(q)[1]) = "SELECT"
Unterminated(q) ==
    IF q # << >> /\ q[Len(q)] = ";" THEN SubSeq(q, 1, Len(q) - 1) ELSE q
ExplicitCap(q) == HasLimitClause(Unterminated(NoSpace(q)))

\* C10: a read statement without an explicit cap is executed capped at limit,
\* so row_count never exceeds limit; one with an explicit cap runs unmodified.
C10_ReadsCapped ==
    (Calls("database_query") /\ call.env.db = "ok" /\ ReadStatement(Bound.query)) =>
        /\ ~ExplicitCap(Bound.query) =>
             /\ log.executed = Bound.query \o <<" ", "LIMIT", ToString(Bound.limit)>>
             /\ "json" \in DOMAIN result[1] /\ "row_count" \in DOMAIN result[1].json
                  => result[1].json.row_count <= Bound.limit
        /\ ExplicitCap(Bound.query) => log.executed = Bound.query

\* the statement as the caller gave it, executed on the store before the call
AsGiven == Execute(pre, Bound.query)
Reports(field) == OneText /\ "json" \in DOMAIN result[1] /\ field \in DOMAIN result[1].json

\* C11: a write statement is committed and answered with rows_affected and no
\* data array; a read statement is answered with its rows and no rows_affected.
C11_WriteCountsReadRows ==
    (Calls("database_query") /\ call.env.db = "ok" /\ AsGiven.ok) =>
        IF ReadStatement(Bound.query)
        THEN /\ Reports("data") /\ Reports("row_count")
             /\ ~Reports("rows_affected")
        ELSE /\ Reports("rows_affected") /\ ~Reports("data")
             /\ log.committed
             /\ Tables3(Store) = Tables3(AsGiven.st)
             /\ result[1].json.rows_affected = AsGiven.rowcount

\* C12: whatever tool calls were served in between, every listing is the
\* first listing: the same seven definitions in the same order.
C12_CatalogImmutable ==
    \A i \in 1..Len(listings) :
        /\ listings[i].tools = listings[1].tools
        /\ Len(listings[i].tools) = 7

C12_Witness ==
    /\ Len(listings) = 2
    /\ listings[1].seq # listings[2].seq
    /\ listings[2].tools = Catalog

\* the required-params column of the documented tool table
DocumentedRequired ==
    [scrape_website |-> {"url"}, analyze_data |-> {"file_path", "analysis_type"},
     system_monitor |-> {}, file_operations |-> {"operation", "path"},
     api_integration |-> {"endpoint"}, database_query |-> {"query"},
     generate_report |-> {"report_type"}]

SeqRange(q) == { q[i] : i \in 1..Len(q) }
WithoutDefault(name) ==
    { Signature[name][i].name :
        i \in { j \in 1..Len(Signature[name]) : Signature[name][j].required } }

\* C13: in every listing, each tool's required fields are those of the
\* documented table and those handler parameters that have no default.
C13_RequiredFields ==
    \A i \in 1..Len(listings) :
        /\ { listings[i].tools[k].name : k \in 1..Len(listings[i].tools) }
             = DOMAIN DocumentedRequired
        /\ \A k \in 1..Len(listings[i].tools) :
             LET tool == listings[i].tools[k]
             IN  /\ SeqRange(tool.required) = DocumentedRequired[tool.name]
                 /\ SeqRange(tool.required) = WithoutDefault(tool.name)

C13_Witness ==
    /\ Len(listings) >= 1
    /\ \E k \in 1..Len(listings[1].tools) :
         /\ listings[1].tools[k].name = "analyze_data"
         /\ listings[1].tools[k].required = <<"file_path", "analysis_type">>
    /\ \E k \in 1..Len(listings[1].tools) :
         /\ listings[1].tools[k].name = "system_monitor"
         /\ listings[1].tools[k].required = << >>

\* C14: with no row in system_metrics, a system_health report is one text
\* block saying that no metrics are available, and no image, whatever the
\* format and include_charts (the store being readable).
C14_NoMetricsNoImage ==
    (/\ Calls("generate_report") /\ Bound.report_type = "system_health"
     /\ pre.system_metrics = << >> /\ call.env.db = "ok") =>
        result = <<Text(<<"No system metrics available for report">>)>>

C14_Witness ==
    /\ Calls("generate_report") /\ Bound.report_type = "system_health"
    /\ Bound.format = "json" /\ Bound.include_charts
    /\ pre.system_metrics = << >> /\ pre.web_scrapes # << >>
    /\ call.env.chart = "fault"
    /\ result = <<Text(<<"No system metrics available for report">>)>>

\* C15: in a returned sequence no image comes before a text block; when an
\* image is returned the text is at index 1 and the images follow it.
C15_TextBeforeImages ==
    Served =>
        /\ \A i, j \in 1..Len(result) :
             (i < j /\ result[i].type = "image") => result[j].type # "text"
        /\ (\E i \in 1..Len(result) : result[i].type = "image") => result[1].type = "text"

C15_Witness ==
    /\ Calls("analyze_data")
    /\ Len(result) = 2 /\ result[1].type = "text" /\ result[2].type = "image"

\* what holds at every position of the sampling loop: a sample is started
\* only before the deadline, the loop sleeps only when the test before the
\* sleep found the deadline ahead, and a call whose deadline has passed at
\* the start takes no sample and answers "No metrics collected"
MonitorDeadlineKept ==
    /\ MonitorAt("sample") => datetime_now(Store) < mon.end_time
    /\ (MonitorAt("while") /\ mon.slept > 0) =>
          datetime_now(Store) - mon.slept < mon.end_time
    /\ (MonitorAt("done") /\ MonitorBound.duration_minutes <= 0) =>
          /\ mon.iterations = 0 /\ log.samples = 0
          /\ result = <<Text(<<"No metrics collected">>)>>

\* C16: the sampling loop ends for every duration_minutes and
\* interval_seconds; the deadline is consulted at loop entry and before the
\* sleep, no sample starts at or after it, and a deadline already passed
\* means no sample and "No metrics collected".
C16_MonitorTerminates ==
    /\ []MonitorDeadlineKept
    /\ (mon.pc \notin {"idle", "done"}) ~> (mon.pc = "done")

C16_Witness ==
    /\ MonitorAt("done")
    /\ MonitorBound.duration_minutes = 1 /\ MonitorBound.interval_seconds = 58
    /\ mon.iterations = 2 /\ mon.slept = 0
    /\ datetime_now(Store) >= mon.end_time

\* the rows system_metrics has gained since the call began
RowsAdded == Len(system_metrics) - Len(pre.system_metrics)
MonitorRunning == call # NoCall /\ call.name = "system_monitor" /\ mon.pc # "idle"

\* C17: every iteration appends one sample and, with save_metrics, inserts one
\* row; on return the rows added equal samples_collected (none without
\* save_metrics), and samples_collected is the length of detailed_metrics.
C17_OneSampleOneRow ==
    MonitorRunning =>
        /\ Len(mon.metrics) = mon.iterations - (IF mon.pc = "sample" THEN 1 ELSE 0)
        /\ log.samples = Len(mon.metrics)
        /\ ~MonitorBound.save_metrics => RowsAdded = 0
        /\ MonitorBound.save_metrics =>
             RowsAdded = Len(mon.metrics)
                         - (IF mon.pc = "save" \/ log.fault THEN 1 ELSE 0)
        /\ (mon.pc = "done" /\ Reports("samples_collected")) =>
             /\ result[1].json.samples_collected = Len(result[1].json.detailed_metrics)
             /\ result[1].json.samples_collected = mon.iterations
             /\ RowsAdded = IF MonitorBound.save_metrics
                            THEN result[1].json.samples_collected ELSE 0

C17_Witness ==
    /\ MonitorAt("done") /\ MonitorBound.save_metrics
    /\ Reports("samples_collected") /\ result[1].json.samples_collected = 6
    /\ RowsAdded = 6 /\ Len(result[1].json.detailed_metrics) = 6

IsPrefix(a, b) == Len(a) <= Len(b) /\ SubSeq(b, 1, Len(a)) = a

\* C18: over any sequence of scrape_website, system_monitor, api_integration
\* and generate_report calls every table only grows at its end: no row is
\* removed or changed, expired cache rows included.
C18_RowsKept ==
    [][/\ IsPrefix(web_scrapes, web_scrapes')
       /\ IsPrefix(system_metrics, system_metrics')
       /\ IsPrefix(api_cache, api_cache')]_vars

\* an expired row for the endpoint is still there after the endpoint was
\* fetched and cached again
C18_Witness ==
    /\ Calls("api_integration") /\ tz = 0
    /\ Len(pre.api_cache) = 1 /\ pre.api_cache[1].endpoint = Bound.endpoint
    /\ pre.now >= (pre.api_cache[1].cached_at + 1) * UnitsPerSecond
                  + Bound.cache_duration_hours * HourUnits
    /\ log.fetched
    /\ Len(api_cache) = 2 /\ api_cache[1] = pre.api_cache[1]
    /\ api_cache[2].endpoint = Bound.endpoint

\* C19: every connection a handler opened is closed when the handler returns,
\* on the success path and on every error path.
C19_ConnectionsClosed ==
    Served => log.closed = log.opened

\* the table a handler's own SQL writes to
OwnTables(name) ==
    IF name = "scrape_website" THEN {"web_scrapes"}
    ELSE IF name = "system_monitor" THEN {"system_metrics"}
    ELSE IF name = "api_integration" THEN {"api_cache"}
    ELSE {}

\* C21: scrape_website changes only web_scrapes, system_monitor only
\* system_metrics, api_integration only api_cache; generate_report,
\* analyze_data and file_operations change no table, whatever the arguments
\* and whichever step fails.
C21_OwnTableOnly ==
    (Registered /\ call.name # "database_query") =>
        \A t \in Tables \ OwnTables(call.name) :
            /\ Store[t] = pre[t]
            /\ seq[t] = pre.seq[t]

C21_Witness ==
    /\ Calls("scrape_website")
    /\ Len(web_scrapes) = Len(pre.web_scrapes) + 1
    /\ pre.api_cache # << >> /\ api_cache = pre.api_cache
    /\ pre.system_metrics # << >> /\ system_metrics = pre.system_metrics

\* the rows the lookup's SELECT matches in the store the call found
FreshAt(st, endpoint, hours) ==
    SelectSeq(st.api_cache, LAMBDA row :
        /\ row.endpoint = endpoint
        /\ row.cached_at > (datetime_now(st) - timedelta_hours(hours)) \div UnitsPerSecond)
LookupRows == FreshAt(pre, Bound.endpoint, Bound.cache_duration_hours)

\* C22: a cached GET whose lookup finds a fresh row for the endpoint returns
\* exactly one text block, "Cached response:\n" followed by the stored
\* response_data, makes no network request and inserts no row into api_cache.
C22_CacheHit ==
    (/\ Calls("api_integration") /\ Bound.use_cache /\ Bound.method = "GET"
     /\ call.env.db = "ok" /\ LookupRows # << >>) =>
        /\ result = <<[type |-> "text", text |-> <<"Cached response:\n">>,
                       json |-> LookupRows[1].response_data]>>
        /\ \E i \in 1..Len(pre.api_cache) :
             /\ pre.api_cache[i].endpoint = Bound.endpoint
             /\ pre.api_cache[i].response_data = result[1].json
        /\ ~log.fetched /\ ~log.committed
        /\ api_cache = pre.api_cache /\ seq = pre.seq

\* a hit answered while the network is down, from a store holding rows of
\* both endpoints
C22_Witness ==
    /\ Calls("api_integration") /\ Bound.endpoint = "E2"
    /\ call.env.net = "fault"
    /\ Len(pre.api_cache) = 2 /\ pre.api_cache[1].endpoint = "E1"
    /\ OneText /\ Says(result[1], "Cached response:\n")
    /\ result[1].json = pre.api_cache[2].response_data
    /\ api_cache = pre.api_cache

Reversed(q) == [i \in 1..Len(q) |-> q[Len(q) + 1 - i]]

\* the readings of the samples recorded last, oldest first (system_metrics is
\* in recording order)
LatestReadings(n) == Column(LastN(pre.system_metrics, n), "cpu_percent")

\* C23: when the report retrieved more than 50 rows, its charts plot the 50
\* most recently recorded of them.
C23_ChartsLatest ==
    (/\ Calls("generate_report") /\ Bound.report_type = "system_health"
     /\ Len(result) = 2 /\ result[2].type = "image"
     /\ Len(pre.system_metrics) > ChartWindow) =>
        \/ result[2].plotted = LatestReadings(ChartWindow)
        \/ result[2].plotted = Reversed(LatestReadings(ChartWindow))

\* the window every call of this specification uses
DefaultWindow == SchemaProp("api_integration", "cache_duration_hours").default

\* C24: with calls served one at a time and the same cache_duration_hours on
\* every call, at every moment at most one row per endpoint passes the
\* lookup's freshness test, and a call inserts a row for its endpoint only
\* when no row for it passed the test.
C24_OneFreshRow ==
    /\ \A e \in {"E1", "E2"} : Len(FreshAt(Store, e, DefaultWindow)) <= 1
    /\ (Calls("api_integration") /\ api_cache # pre.api_cache) =>
          /\ Bound.cache_duration_hours = DefaultWindow
          /\ FreshAt(pre, Bound.endpoint, DefaultWindow) = << >>

\* the endpoint cached a second time, its first row having left the window
C24_Witness ==
    /\ Calls("api_integration") /\ Bound.endpoint = "E1"
    /\ Len(api_cache) = 2 /\ Len(pre.api_cache) = 1
    /\ api_cache[1].endpoint = "E1" /\ api_cache[2].endpoint = "E1"
    /\ FreshAt(Store, "E1", DefaultWindow) = <<api_cache[2]>>

\* what the handler did with the statement it was given
LimitAppended == log.executed = Bound.query \o <<" ", "LIMIT", ToString(Bound.limit)>>
TreatedAsRead == Reports("data") /\ Reports("row_count") /\ ~log.committed

\* C25: of the statements that execute, every one that had a LIMIT appended
\* is then treated as a read (rows returned, nothing committed), and every one
\* treated as a read that has no explicit cap had the LIMIT appended.
C25_ConsistentClassification ==
    (Calls("database_query") /\ call.env.db = "ok" /\ ~log.fault) =>
        /\ LimitAppended => TreatedAsRead
        /\ (TreatedAsRead /\ ~ExplicitCap(Bound.query)) => LimitAppended

\* C26: in a markdown system_health report the status of CPU, memory and
\* disk is "Warning" exactly when the report carries the recommendation for
\* it, whatever the average, the thresholds 80, 85 and 90 included.
C26_StatusMatchesRecommendation ==
    (/\ Calls("generate_report") /\ Bound.report_type = "system_health"
     /\ Bound.format = "markdown" /\ Len(result) >= 1 /\ Reports("metrics_analyzed") ) =>
        /\ result[1].json.cpu_analysis.status = "Warning"
             <=> Says(result[1], "- Consider investigating high CPU usage processes\n")
        /\ result[1].json.memory_analysis.status = "Warning"
             <=> Says(result[1],
                      "- Memory usage is high, consider closing unnecessary applications\n")
        /\ result[1].json.disk_analysis.status = "Warning"
             <=> Says(result[1], "- Disk space is running low, consider cleanup\n")

\* C27: whatever the tool and the argument bag, a report_type, operation or
\* analysis_type that no branch handles included, the returned sequence is not
\* empty and holds at least one text block.
C27_NeverEmpty ==
    Served => /\ result # << >>
              /\ \E i \in 1..Len(result) : IsText(result[i])

====
